---------------------------- MODULE Spec2Model ----------------------------
(***************************************************************************)
(* django_c3: per-language storage of translatable model fields.          *)
(*                                                                         *)
(* One record instance (a MultilingualModel subclass with the translatable *)
(* field `title` and the inherited flag field `translation_is_active`) is  *)
(* followed through its constructor, its attribute accessors and its       *)
(* translation operations, under an ambient language that the surrounding  *)
(* request machinery switches at will.                                     *)
(*                                                                         *)
(* Strings are sequences, so that language_code.split('-')[0] and          *)
(* '%s_%s' % (...) are computed, not assumed: a language code is the       *)
(* sequence of its characters, a field name is one chunk (the code never   *)
(* looks inside a field name).  Field values are naturals: 0 is the falsy  *)
(* value of the field's type ('' for title, False for the flag), 1 is True *)
(* for the flag, 1..MaxValue are the non-empty titles.  None and '' are    *)
(* both the empty sequence: the code reads them only through `or`.         *)
(***************************************************************************)
EXTENDS Naturals, Sequences, FiniteSets, TLC

\* ------------------------------------------------------------------ bounds

\* Non-empty title values are 1..MaxValue.
MaxValue == 2

\* Longest base and longest region of the language codes drawn for the name
\* resolver.
MaxCodeLen == 2

\* ----------------------------------------------------------------- strings

None == << >>

en == <<"e", "n">>
fr == <<"f", "r">>
de == <<"d", "e">>
fr_ca == <<"f", "r", "-", "c", "a">>

title == <<"title">>

translation_is_active == <<"translation_is_active">>

\* Python's `a or b` on strings / None.
Or(a, b) == IF a # None THEN a ELSE b

\* Python truthiness of a field value.
Truthy(value) == value # 0

\* --------------------------------------------------------- configuration

\* settings.LANGUAGES: (code, name) pairs.  Two region-free languages, one
\* more, and a region variant of a configured language, as in Django's own
\* default list (which holds es and es-ar, pt and pt-br, ...).
LANGUAGES ==
    << <<en, "English">>, <<fr, "French">>, <<de, "German">>,
       <<fr_ca, "Canadian French">> >>

C3_LANGUAGES == LANGUAGES

C3_PRIMARY_LANGUAGE == C3_LANGUAGES[1][1]

\* The configured codes, in configured order (language[0] for each entry).
Codes == [i \in 1..Len(C3_LANGUAGES) |-> C3_LANGUAGES[i][1]]

CodeSet == {Codes[i] : i \in 1..Len(Codes)}

\* ------------------------------------------------------------------ utils

RECURSIVE SplitDashHead(_)
\* str.split('-')[0]: the characters before the first '-'.
SplitDashHead(s) ==
    IF s = << >> \/ Head(s) = "-" THEN << >>
    ELSE <<Head(s)>> \o SplitDashHead(Tail(s))

\* Variant: the code is taken as given, region and all.
get_normalized_language_keep_region(language_code) == language_code

get_normalized_language(language_code) == SplitDashHead(language_code)

get_i18n_field_name(field_name, language) ==
    LET lang_code == get_normalized_language(language)
    IN  field_name \o <<"_">> \o lang_code

\* ------------------------------------------------------------------ state

VARIABLES
    ambient,     \* translation.get_language(): the ambient current language
    obj,         \* the record instance: [exists, attrs, _force_language]
    last,        \* the last call made: [op, raised]
    probe,       \* the last call of the name resolver: [op, field, code, out, again]
    settings,    \* django.conf.settings: [LANGUAGES, DJANGO_C3_LANGUAGES,
                 \* DJANGO_C3_PRIMARY_LANGUAGE]
    form,        \* the MultilingualModelForm bound to the instance:
                 \* [bound, language_code]
    store,       \* the stored row of the record: [exists, attrs]
    admin        \* the admin site: [log, request, response]

vars == <<ambient, obj, last, probe, settings, form, store, admin>>

\* What the operations of the record itself leave alone.
collaborators == <<settings, form, store, admin>>

\* A setting the settings module does not define.
Unset == <<"unset">>

\* The settings of the project: LANGUAGES and nothing of DJANGO_C3_*.
DefaultSettings ==
    [LANGUAGES |-> LANGUAGES, DJANGO_C3_LANGUAGES |-> Unset,
     DJANGO_C3_PRIMARY_LANGUAGE |-> Unset]

NoForm == [bound |-> FALSE, language_code |-> None]

NoRow == [exists |-> FALSE, attrs |-> << >>]

NoRequest == [object_id |-> 0, language_code |-> None, method |-> "none",
              has_delete_permission |-> FALSE]

NoAdmin == [log |-> 0, request |-> NoRequest, response |-> "none"]

get_current_language == get_normalized_language(ambient)

\* ----------------------------------------------------------------- schema

\* MultilingualModel declares the flag field; the subclass declares
\* Meta.translate = ('title',).
active_field_name == translation_is_active

translatable_fields == <<translation_is_active, title>>

FieldSet == {translatable_fields[i] : i \in 1..Len(translatable_fields)}

\* The languages that get a suffixed copy of each translatable field.
SuffixedLanguages ==
    {Codes[i] : i \in {j \in 1..Len(Codes) : Codes[j] # C3_PRIMARY_LANGUAGE}}

\* attnames of the generated per-language fields.
I18nFieldNames ==
    {get_i18n_field_name(f, l) : f \in FieldSet, l \in SuffixedLanguages}

\* Which logical field a generated field copies.
FieldOf(name) ==
    CHOOSE f \in FieldSet :
        \E l \in SuffixedLanguages : get_i18n_field_name(f, l) = name

\* Values a field accepts in this model, and its declared default.
ValuesOf(field_name) ==
    IF field_name = translation_is_active THEN {0, 1} ELSE 0..MaxValue

DefaultOf(field_name) == 0

NoObject == [exists |-> FALSE, attrs |-> << >>, _force_language |-> None]

\* The record of a call: its name and what it raised.
Called(op) == [op |-> op, raised |-> "none"]

Raised(op, exc) == [op |-> op, raised |-> exc]

NoProbe == [op |-> "none", field |-> None, code |-> None, out |-> None,
            again |-> None]


\* Keyword arguments / data dictionaries: logical field name -> value.
DataSet ==
    UNION { {d \in [S -> 0..MaxValue] : \A k \in S : d[k] \in ValuesOf(k)} :
            S \in SUBSET FieldSet }

\* What a call returns or raises.
Return(value) == [value |-> value, raised |-> "none"]

Raise(exc) == [value |-> 0, raised |-> exc]

\* ------------------------------------------------- instance attributes

\* getattr(self, name) on a slot attribute.
getattr(self, name) ==
    IF name \in DOMAIN self.attrs THEN Return(self.attrs[name])
    ELSE Raise("AttributeError")

\* setattr(self, name, value) on a slot attribute.
setattr(self, name, value) ==
    [self EXCEPT !.attrs = (name :> value) @@ self.attrs]

\* ------------------------------------------------- MultilingualModel

\* Variant: the ambient language is asked first.
get_active_language_ambient_first(self) ==
    Or(get_current_language, self._force_language)

get_active_language(self) ==
    Or(self._force_language, get_current_language)

get_i18n_field_value(self, field_name, language) ==
    LET current_language == Or(language, get_active_language(self))
        i18n_field_name == get_i18n_field_name(field_name, current_language)
    IN  getattr(self, i18n_field_name)

\* Variant: the slot is named from the code as given, not normalized.
set_i18n_field_value_raw_code(self, field_name, value, language) ==
    LET current_language == Or(language, get_active_language(self))
        i18n_field_name == field_name \o <<"_">> \o current_language
    IN  setattr(self, i18n_field_name, value)

\* Variant: the value is also kept in the slot of the primary language.
set_i18n_field_value_mirrored(self, field_name, value, language) ==
    LET current_language == Or(language, get_active_language(self))
        i18n_field_name == get_i18n_field_name(field_name, current_language)
        primary_name == get_i18n_field_name(field_name, C3_PRIMARY_LANGUAGE)
    IN  setattr(setattr(self, primary_name, value), i18n_field_name, value)

set_i18n_field_value(self, field_name, value, language) ==
    LET current_language == Or(language, get_active_language(self))
        i18n_field_name == get_i18n_field_name(field_name, current_language)
    IN  setattr(self, i18n_field_name, value)

\* The property installed over each translatable field (generate_field_getter
\* / generate_field_setter): obj.<field> and obj.<field> = value.
getter(self, field) == get_i18n_field_value(self, field, None)

setter(self, field, value) == set_i18n_field_value(self, field, value, None)

\* ------------------------------------------------------- construction

\* Lines 183-188: every translatable keyword is renamed to the slot of the
\* ambient language (attrname != field always holds: the name is suffixed).
RewriteKwargs(kwargs, language) ==
    [n \in {get_i18n_field_name(f, language) : f \in DOMAIN kwargs} |->
        kwargs[CHOOSE f \in DOMAIN kwargs :
                   get_i18n_field_name(f, language) = n]]

RECURSIVE InitDeclaredFields(_, _, _)
\* django Model.__init__, the declared (un-suffixed) fields: each is assigned
\* its keyword or its default through the masking property.
InitDeclaredFields(self, fields, kwargs) ==
    IF fields = << >> THEN self
    ELSE LET f == Head(fields)
             val == IF f \in DOMAIN kwargs THEN kwargs[f] ELSE DefaultOf(f)
         IN  InitDeclaredFields(setter(self, f, val), Tail(fields), kwargs)

\* django Model.__init__, the generated per-language fields (created after
\* the field they copy): each is assigned its keyword or its default.
InitI18nFields(self, kwargs) ==
    [self EXCEPT !.attrs =
        [n \in I18nFieldNames |->
            IF n \in DOMAIN kwargs THEN kwargs[n] ELSE DefaultOf(FieldOf(n))]
        @@ self.attrs]

\* django Model.__init__ rejects a keyword that is neither a field nor a
\* property of the class with TypeError.
UnexpectedKwargs(kwargs) == DOMAIN kwargs \ (FieldSet \cup I18nFieldNames)

Model__init__(self, kwargs) ==
    InitI18nFields(InitDeclaredFields(self, translatable_fields, kwargs), kwargs)

\* Lines 177-194: the instance the constructor builds from the keywords, or
\* what it raises.
MultilingualModel__init__(kwargs) ==
    LET language == get_current_language
        kw == RewriteKwargs(kwargs, language)
        forced == [exists |-> TRUE, attrs |-> << >>,
                   _force_language |->
                       get_normalized_language(LANGUAGES[1][1])]
        built == Model__init__(forced, kw)
    IN  IF UnexpectedKwargs(kw) # {}
        THEN [self |-> NoObject, raised |-> "TypeError"]
        ELSE [self |-> [built EXCEPT !._force_language = None],
              raised |-> "none"]

\* obj = Model(**kwargs)
__init__(kwargs) ==
    /\ ~obj.exists
    /\ LET r == MultilingualModel__init__(kwargs)
       IN  obj' = r.self /\ last' = Raised("__init__", r.raised)
    /\ UNCHANGED <<ambient, probe>>
    /\ UNCHANGED collaborators

\* ----------------------------------------------------------- save

\* Variant: the forced language is not switched back.
save_keep_forced(self) ==
    LET language == get_active_language(self)
        flagged == set_i18n_field_value(self, active_field_name, 1, language)
    IN  [flagged EXCEPT !._force_language =
             get_normalized_language(LANGUAGES[1][1])]

\* Lines 196-205.  The framework's Model.save() reads every field through
\* its attribute (the masking property, under the forced language) and
\* changes no slot of the instance.
save(self) ==
    LET language == get_active_language(self)
        flagged == set_i18n_field_value(self, active_field_name, 1, language)
        old_forced_language == flagged._force_language
        forced == [flagged EXCEPT !._force_language =
                       get_normalized_language(LANGUAGES[1][1])]
    IN  [forced EXCEPT !._force_language = old_forced_language]

\* ------------------------------------------------------ translations

\* Whether a keyword dictionary has the method iteritems.  The class
\* statement of MultilingualModel passes metaclass=... as a keyword, which
\* only Python 3 accepts, and a Python 3 dict has no iteritems: the lookup
\* kwargs.iteritems raises AttributeError.
dict_has_iteritems == FALSE

RECURSIVE SetAttributes(_, _)
\* for key, val in kwargs: setattr(self, key, val), each through the
\* masking property of the logical field.
SetAttributes(self, kwargs) ==
    IF DOMAIN kwargs = {} THEN self
    ELSE LET key == CHOOSE k \in DOMAIN kwargs : TRUE
             rest == [k \in DOMAIN kwargs \ {key} |-> kwargs[k]]
         IN  SetAttributes(setter(self, key, kwargs[key]), rest)

\* Lines 207-215.
translate(self, language, kwargs) ==
    LET old_forced_language == self._force_language
        forced == [self EXCEPT !._force_language = language]
    IN  IF ~dict_has_iteritems
        THEN [self |-> forced, raised |-> "AttributeError"]
        ELSE [self |-> [SetAttributes(forced, kwargs)
                            EXCEPT !._force_language = old_forced_language],
              raised |-> "none"]

\* Lines 288-300.  The queryset update under force_language(language)
\* writes to the store, not to this instance, and the override restores the
\* ambient language on the way out; then the instance is updated.
update_translation(self, language, data) ==
    translate(self, language, data)

\* Lines 275-279.
save_translation(self, language, data) ==
    update_translation(self, language, (active_field_name :> 1) @@ data)

\* Lines 281-283.
deactivate_translation(self, language) ==
    update_translation(self, language, (active_field_name :> 0))

\* Lines 285-286.
translation_exists(self, language) ==
    get_i18n_field_value(self, active_field_name, language)

RECURSIVE ScanFallbacks(_, _, _, _, _)
\* Lines 267-272: the loop over C3_LANGUAGES, from entry i, `value` being the
\* last value read.
ScanFallbacks(self, field, current_language, value, i) ==
    IF i > Len(C3_LANGUAGES) THEN value
    ELSE LET language == C3_LANGUAGES[i]
         IN  IF language[1] # current_language
             THEN LET read == get_i18n_field_value(self, field, language[1])
                  IN  IF read.raised # "none" THEN read
                      ELSE IF Truthy(read.value) THEN read
                      ELSE ScanFallbacks(self, field, current_language,
                                         read, i + 1)
             ELSE ScanFallbacks(self, field, current_language, value, i + 1)

\* Variant: the last other language with a value answers, not the first.
get_i18n_field_value_with_fallbacks_last(self, field, language) ==
    LET current_language == Or(language, get_active_language(self))
        others == {l \in CodeSet :
                      /\ l # current_language
                      /\ Truthy(get_i18n_field_value(self, field, l).value)}
        value == get_i18n_field_value(self, field, current_language)
    IN  IF Truthy(value.value) \/ others = {} THEN value
        ELSE get_i18n_field_value(self, field,
                 Codes[CHOOSE i \in 1..Len(Codes) :
                           /\ Codes[i] \in others
                           /\ \A j \in 1..Len(Codes) :
                                  Codes[j] \in others => j <= i])

\* Lines 260-273.
get_i18n_field_value_with_fallbacks(self, field, language) ==
    LET current_language == Or(language, get_active_language(self))
        value == get_i18n_field_value(self, field, current_language)
    IN  IF value.raised # "none" THEN value
        ELSE IF Truthy(value.value) THEN value
        ELSE ScanFallbacks(self, field, current_language, value, 1)

\* Lines 225-228.
get_bound_languages(self) ==
    SelectSeq(Codes, LAMBDA l : Truthy(translation_exists(self, l).value))

\* ----------------------------------------------------- Translation view

\* No view: get_translation returned None.
NoTranslation == [language_code |-> None, fields |-> << >>]

\* Lines 217-220: a view of `self` (its master) bound to `language`.
_get_translation(self, language) ==
    [language_code |-> language, fields |-> translatable_fields]

\* Lines 157-158.
is_active(view, master) == translation_exists(master, view.language_code)

\* Lines 152-155: the truth value of a view; None is false.
Translation__bool__(view, master) ==
    IF view = NoTranslation THEN FALSE
    ELSE Truthy(is_active(view, master).value)

\* What a lookup on a view returns or raises, and its master afterwards.
Found(value, master) ==
    [value |-> value, raised |-> "none", model |-> None, field |-> None,
     master |-> master]

NotFound(exc, master) ==
    [value |-> 0, raised |-> exc, model |-> None, field |-> None,
     master |-> master]

\* FieldDoesNotExist('%s has no field named %r' % (opts.object_name, field))
FieldDoesNotExist(model, field, master) ==
    [value |-> 0, raised |-> "FieldDoesNotExist", model |-> model,
     field |-> field, master |-> master]

\* The record type's name, opts.object_name.
object_name == <<"Bar">>

\* A field of the record type that is not translatable.
price == <<"price">>

\* Variant: the read is made by forcing the view's language on the master.
Translation__getattr__forced(view, master, field) ==
    IF \E i \in 1..Len(view.fields) : view.fields[i] = field
    THEN LET forced == [master EXCEPT !._force_language = view.language_code]
             read == get_i18n_field_value(forced, field, None)
         IN  IF read.raised = "none" THEN Found(read.value, forced)
             ELSE NotFound(read.raised, forced)
    ELSE FieldDoesNotExist(object_name, field, master)

\* Lines 146-150: the lookup of a name the view does not define itself.
Translation__getattr__(view, master, field) ==
    IF \E i \in 1..Len(view.fields) : view.fields[i] = field
    THEN LET read == get_i18n_field_value(master, field, view.language_code)
         IN  IF read.raised = "none" THEN Found(read.value, master)
             ELSE NotFound(read.raised, master)
    ELSE FieldDoesNotExist(object_name, field, master)

\* Lines 230-235.
get_translation(self, language, include_inactive) ==
    LET active == translation_exists(self, language)
    IN  IF ~Truthy(active.value) /\ ~include_inactive THEN NoTranslation
        ELSE _get_translation(self, language)

RECURSIVE CollectTranslations(_, _, _)
\* Lines 240-247: the loop over C3_LANGUAGES, from entry i.
CollectTranslations(self, include_inactive, i) ==
    IF i > Len(C3_LANGUAGES) THEN << >>
    ELSE LET language == C3_LANGUAGES[i]
             translation == get_translation(self, language[1], include_inactive)
             rest == CollectTranslations(self, include_inactive, i + 1)
         IN  IF Translation__bool__(translation, self) \/ include_inactive
             THEN <<translation>> \o rest
             ELSE rest

\* Variant: every configured language gets a view, active or not.
get_translations_all(self, include_inactive) ==
    [i \in 1..Len(Codes) |-> _get_translation(self, Codes[i])]

\* Lines 237-248.
get_translations(self, include_inactive) ==
    CollectTranslations(self, include_inactive, 1)

\* ---------------------------------------------------- attribute access

\* obj.<field> = value, or set_i18n_field_value(field, value, language).
SetField(field_name, value, language) ==
    /\ obj.exists
    /\ obj' = set_i18n_field_value(obj, field_name, value, language)
    /\ last' = Called("set_i18n_field_value")
    /\ UNCHANGED <<ambient, probe>>
    /\ UNCHANGED collaborators

\* translation.activate(code): the request machinery switches the ambient
\* language.
activate(code) ==
    /\ ambient # code
    /\ ambient' = code
    /\ last' = Called("activate")
    /\ UNCHANGED <<obj, probe>>
    /\ UNCHANGED collaborators

\* obj.save()
Save ==
    /\ obj.exists
    /\ obj' = save(obj)
    /\ last' = Called("save")
    /\ UNCHANGED <<ambient, probe>>
    /\ UNCHANGED collaborators

\* obj.translate(language, **kwargs)
Translate(language, kwargs) ==
    /\ obj.exists
    /\ LET r == translate(obj, language, kwargs)
       IN  obj' = r.self /\ last' = Raised("translate", r.raised)
    /\ UNCHANGED <<ambient, probe>>
    /\ UNCHANGED collaborators

\* obj.update_translation(language, data)
UpdateTranslation(language, data) ==
    /\ obj.exists
    /\ LET r == update_translation(obj, language, data)
       IN  /\ obj' = r.self
           /\ last' = Raised("update_translation", r.raised)
    /\ UNCHANGED <<ambient, probe>>
    /\ UNCHANGED collaborators

\* obj.save_translation(language, data)
SaveTranslation(language, data) ==
    /\ obj.exists
    /\ LET r == save_translation(obj, language, data)
       IN  /\ obj' = r.self
           /\ last' = Raised("save_translation", r.raised)
    /\ UNCHANGED <<ambient, probe>>
    /\ UNCHANGED collaborators

\* obj.deactivate_translation(language)
DeactivateTranslation(language) ==
    /\ obj.exists
    /\ LET r == deactivate_translation(obj, language)
       IN  /\ obj' = r.self
           /\ last' = Raised("deactivate_translation", r.raised)
    /\ UNCHANGED <<ambient, probe>>
    /\ UNCHANGED collaborators

Init ==
    /\ ambient \in CodeSet
    /\ obj = NoObject
    /\ last = Called("start")
    /\ probe = NoProbe
    /\ settings = DefaultSettings
    /\ form = NoForm
    /\ store = NoRow
    /\ admin = NoAdmin

Next ==
    \/ \E kwargs \in DataSet : __init__(kwargs)
    \/ \E f \in FieldSet, l \in CodeSet \cup {None} :
           \E v \in ValuesOf(f) : SetField(f, v, l)
    \/ \E code \in CodeSet : activate(code)
    \/ Save
    \/ \E l \in CodeSet, kwargs \in DataSet : Translate(l, kwargs)
    \/ \E l \in CodeSet, data \in DataSet : UpdateTranslation(l, data)
    \/ \E l \in CodeSet, data \in DataSet : SaveTranslation(l, data)
    \/ \E l \in CodeSet : DeactivateTranslation(l)

Spec == Init /\ [][Next]_vars

\* ------------------------------------------------ the name resolver alone

SeqsUpTo(S, n) == UNION {[1..k -> S] : k \in 0..n}

\* Language codes: a base without '-', alone or followed by '-' and a region
\* (which may hold further '-').
Bases == SeqsUpTo({"e", "n"}, MaxCodeLen)

Regions == SeqsUpTo({"u", "s", "-"}, MaxCodeLen)

WithRegion(base, region) == base \o <<"-">> \o region

\* get_i18n_field_name(field, base-region) and get_i18n_field_name(field, base)
ResolveName(field, base, region) ==
    /\ probe = NoProbe
    /\ probe' = [op |-> "get_i18n_field_name", field |-> field,
                 code |-> WithRegion(base, region),
                 out |-> get_i18n_field_name(field, WithRegion(base, region)),
                 again |-> get_i18n_field_name(field, base)]
    /\ UNCHANGED <<ambient, obj, last>>
    /\ UNCHANGED collaborators

\* get_normalized_language(code) and get_normalized_language of the result
Normalize(code) ==
    /\ probe = NoProbe
    /\ probe' = [op |-> "get_normalized_language", field |-> None,
                 code |-> code,
                 out |-> get_normalized_language(code),
                 again |-> get_normalized_language(get_normalized_language(code))]
    /\ UNCHANGED <<ambient, obj, last>>
    /\ UNCHANGED collaborators

InitNames ==
    /\ ambient = C3_PRIMARY_LANGUAGE
    /\ obj = NoObject
    /\ last = Called("start")
    /\ probe = NoProbe
    /\ settings = DefaultSettings
    /\ form = NoForm
    /\ store = NoRow
    /\ admin = NoAdmin

NextNames ==
    \/ \E f \in FieldSet, b \in Bases, r \in Regions : ResolveName(f, b, r)
    \/ \E b \in Bases : Normalize(b)
    \/ \E b \in Bases, r \in Regions : Normalize(WithRegion(b, r))

SpecNames == InitNames /\ [][NextNames]_vars

\* ------------------------------------------- the schema under any settings

\* Longest language list of the settings drawn.
MaxLanguages == 2

\* conf.py 4-8: getattr(settings, 'DJANGO_C3_LANGUAGES', settings.LANGUAGES)
conf_C3_LANGUAGES(s) ==
    IF s.DJANGO_C3_LANGUAGES # Unset THEN s.DJANGO_C3_LANGUAGES
    ELSE s.LANGUAGES

\* conf.py 11-15: getattr(settings, 'DJANGO_C3_PRIMARY_LANGUAGE',
\* C3_LANGUAGES[0][0])
conf_C3_PRIMARY_LANGUAGE(s) ==
    IF s.DJANGO_C3_PRIMARY_LANGUAGE # Unset THEN s.DJANGO_C3_PRIMARY_LANGUAGE
    ELSE conf_C3_LANGUAGES(s)[1][1]

\* models.py 39-40: the languages that get a copy of each translatable field.
languages(s) ==
    LET configured == conf_C3_LANGUAGES(s)
    IN  SelectSeq([i \in 1..Len(configured) |-> configured[i][1]],
                  LAMBDA language : language # conf_C3_PRIMARY_LANGUAGE(s))

\* models.py 44-49: the names of the generated fields.
i18n_field_names(s) ==
    {get_i18n_field_name(f, languages(s)[i]) :
        f \in FieldSet, i \in 1..Len(languages(s))}

\* models.py 192 and 202: the language __init__ and save() force.
forced_primary_language(s) == get_normalized_language(s.LANGUAGES[1][1])

\* The columns of the table: the declared fields, un-suffixed, and the
\* generated fields.
columns(s) == FieldSet \cup i18n_field_names(s)

\* models.py 193: the framework's constructor assigns every generated field
\* the value given for it.
InitGeneratedFields(self, names, row) ==
    [self EXCEPT !.attrs = [n \in names |-> row[n]] @@ self.attrs]

\* models.py 177-194 for an instance built from a stored row: the declared
\* fields are assigned through the masking property under the forced language,
\* the generated fields directly.
load(s, row) ==
    LET forced == [exists |-> TRUE, attrs |-> << >>,
                   _force_language |-> forced_primary_language(s)]
        declared == InitDeclaredFields(forced, translatable_fields, row)
        built == InitGeneratedFields(declared, i18n_field_names(s), row)
    IN  [built EXCEPT !._force_language = None]

\* models.py 196-205 with what the framework's save() stores: every column is
\* read by its name on the instance, a declared field through the masking
\* property under the forced language.
save_row(s, self) ==
    LET language == get_active_language(self)
        flagged == set_i18n_field_value(self, active_field_name, 1, language)
        old_forced_language == flagged._force_language
        forced == [flagged EXCEPT
                      !._force_language = forced_primary_language(s)]
        read == [n \in columns(s) |->
                    IF n \in FieldSet THEN getter(forced, n)
                    ELSE getattr(forced, n)]
    IN  IF \E n \in columns(s) : read[n].raised # "none"
        THEN [self |-> forced, row |-> << >>, raised |-> "AttributeError"]
        ELSE [self |-> [forced EXCEPT !._force_language = old_forced_language],
              row |-> [n \in columns(s) |-> read[n].value],
              raised |-> "none"]

\* Language lists: up to MaxLanguages different codes.
LanguageLists ==
    {l \in UNION {[1..k -> {<<c, "name">> : c \in CodeSet}] :
                     k \in 1..MaxLanguages} :
        \A i \in 1..Len(l), j \in 1..Len(l) : i # j => l[i] # l[j]}

\* The settings a project may hold: the primary language, when given, is one
\* of the configured languages.
SettingsSet ==
    {s \in [LANGUAGES : LanguageLists,
            DJANGO_C3_LANGUAGES : LanguageLists \cup {Unset},
            DJANGO_C3_PRIMARY_LANGUAGE : CodeSet \cup {Unset}] :
        \E i \in 1..Len(conf_C3_LANGUAGES(s)) :
            conf_C3_LANGUAGES(s)[i][1] = conf_C3_PRIMARY_LANGUAGE(s)}

\* The rows a table may hold under the settings: a title in the un-suffixed
\* column, every other column at its default.
RowsOf(s) ==
    {[n \in columns(s) |-> IF n = title THEN v ELSE DefaultOf(n)] :
        v \in 1..MaxValue}

\* Model.objects.get(...): the instance is built from the stored row.
Load ==
    /\ store.exists
    /\ ~obj.exists
    /\ obj' = load(settings, store.attrs)
    /\ last' = Called("__init__")
    /\ UNCHANGED <<ambient, probe, settings, form, store, admin>>

\* obj.save() under the settings, with the row it stores.
SaveRow ==
    /\ obj.exists
    /\ LET r == save_row(settings, obj)
       IN  /\ obj' = r.self
           /\ last' = Raised("save", r.raised)
           /\ store' = IF r.raised = "none"
                       THEN [exists |-> TRUE, attrs |-> r.row]
                       ELSE store
    /\ UNCHANGED <<ambient, probe, settings, form, admin>>

InitConf ==
    /\ settings \in SettingsSet
    /\ ambient = settings.LANGUAGES[1][1]
    /\ obj = NoObject
    /\ last = Called("start")
    /\ probe = NoProbe
    /\ form = NoForm
    /\ store \in {[exists |-> TRUE, attrs |-> row] : row \in RowsOf(settings)}
    /\ admin = NoAdmin

NextConf ==
    \/ Load
    \/ SaveRow

SpecConf == InitConf /\ [][NextConf]_vars

\* ------------------------------------------------------- the admin view

\* Most changes the admin log takes.
MaxLog == 2

\* A language code that is no configured language.
es == <<"e", "s">>

\* The primary keys a request may name; the stored row has the first.
ObjectIds == {1, 2}

\* The language codes the URL pattern (.+) hands to the view here.
RequestLanguages == CodeSet \cup {es}

\* The requests drawn: the two URL arguments, the method and the answer of
\* has_delete_permission(request, obj).
Requests ==
    [object_id : ObjectIds, language_code : RequestLanguages,
     method : {"GET", "POST"}, has_delete_permission : BOOLEAN]

\* ModelAdmin.get_object(request, object_id): the instance built from the
\* stored row with that key, or None.
get_object(s, row, object_id) ==
    IF row.exists /\ object_id = 1 THEN load(s, row.attrs) ELSE NoObject

\* The column the queryset writes for a field under the language that
\* update_translation forces: the un-suffixed column for the primary
\* language, the generated one otherwise.
rewrite_lookup_key(s, field, language) ==
    IF get_normalized_language(language)
           = get_normalized_language(conf_C3_PRIMARY_LANGUAGE(s))
    THEN field
    ELSE get_i18n_field_name(field, language)

\* models.py 290-296: _default_manager.filter(pk=self.pk).update(**data)
\* under force_language(language): the row's columns take the data.
queryset_update(s, row, language, data) ==
    [row EXCEPT !.attrs =
        [n \in {rewrite_lookup_key(s, f, language) : f \in DOMAIN data} |->
            data[CHOOSE f \in DOMAIN data :
                     rewrite_lookup_key(s, f, language) = n]]
        @@ row.attrs]

\* What the view leaves behind: the stored row, the length of the admin log
\* and the response (or the exception that ends the request).
Response(row, log, response) ==
    [store |-> row, log |-> log, response |-> response]

\* admin.py 110-181.
deactivate_translation_view(s, row, log, request) ==
    LET instance == get_object(s, row, request.object_id)
        language_code == request.language_code
        exists == translation_exists(instance, language_code)
        translation == get_translation(instance, language_code, FALSE)
        data == (active_field_name :> 0)
        updated == queryset_update(s, row, language_code, data)
        translated == deactivate_translation(instance, language_code)
    IN  IF ~instance.exists THEN Response(row, log, "Http404")
        ELSE IF exists.raised # "none"
        THEN Response(row, log, exists.raised)
        ELSE IF ~Translation__bool__(translation, instance)
        THEN Response(row, log, "Http404")
        ELSE IF ~request.has_delete_permission
        THEN Response(row, log, "PermissionDenied")
        ELSE IF request.method = "POST"
        THEN IF translated.raised # "none"
             THEN Response(updated, log + 1, translated.raised)
             ELSE Response(updated, log + 1, "redirect")
        ELSE Response(row, log, "confirmation")

\* A request reaches the deactivate-translation view.
DeactivateTranslationView(request) ==
    /\ admin.log < MaxLog
    /\ LET r == deactivate_translation_view(settings, store, admin.log, request)
       IN  /\ store' = r.store
           /\ admin' = [log |-> r.log, request |-> request,
                        response |-> r.response]
    /\ last' = Called("deactivate_translation_view")
    /\ UNCHANGED <<ambient, obj, probe, settings, form>>

\* Which logical field a column holds.
ColumnField(name) == IF name \in FieldSet THEN name ELSE FieldOf(name)

\* The rows the table may hold at the start: a title in every title column
\* and any combination of active flags.
StoredRows ==
    {[n \in columns(DefaultSettings) |->
         IF ColumnField(n) = title THEN 1 ELSE flags[n]] :
        flags \in [{n \in columns(DefaultSettings) :
                       ColumnField(n) = active_field_name} -> {0, 1}]}

InitAdmin ==
    /\ ambient = en
    /\ obj = NoObject
    /\ last = Called("start")
    /\ probe = NoProbe
    /\ settings = DefaultSettings
    /\ form = NoForm
    /\ store \in {NoRow} \cup {[exists |-> TRUE, attrs |-> row] :
                                  row \in StoredRows}
    /\ admin = NoAdmin

NextAdmin == \E request \in Requests : DeactivateTranslationView(request)

SpecAdmin == InitAdmin /\ [][NextAdmin]_vars

\* ---------------------------------------------------- the model form

\* The language_code a form class carries: None as declared (forms.py 5),
\* or the language of the request that get_form / get_formset stored on the
\* class.
FormLanguages == CodeSet \cup {None}

\* The framework's ModelForm.__init__ without an instance: it builds a new
\* one, self.instance = opts.model().
NewInstance == MultilingualModel__init__(<< >>).self

\* forms.py 7-18: the instance the form holds after construction.  The
\* framework's constructor reads the instance's fields into self.initial and
\* writes nothing to it.
MultilingualModelForm__init__(instance, language_code) ==
    IF instance.exists
    THEN [instance EXCEPT !._force_language = language_code]
    ELSE NewInstance

\* forms.py 20-22: the instance after form.save().  The framework's save
\* assigns the cleaned data to the instance's fields and calls
\* instance.save().
MultilingualModelForm_save(instance, language_code, cleaned_data) ==
    LET forced == [instance EXCEPT !._force_language = language_code]
    IN  save(SetAttributes(forced, cleaned_data))

\* form = FormClass(instance=obj), or FormClass() when there is no record.
FormInit(language_code) ==
    /\ ~form.bound
    /\ obj' = MultilingualModelForm__init__(obj, language_code)
    /\ form' = [bound |-> TRUE, language_code |-> language_code]
    /\ last' = Called("MultilingualModelForm.__init__")
    /\ UNCHANGED <<ambient, probe, settings, store, admin>>

\* form.save()
FormSave(cleaned_data) ==
    /\ form.bound
    /\ obj' = MultilingualModelForm_save(obj, form.language_code, cleaned_data)
    /\ form' = NoForm
    /\ last' = Called("MultilingualModelForm.save")
    /\ UNCHANGED <<ambient, probe, settings, store, admin>>

NextForm ==
    \/ \E kwargs \in DataSet : __init__(kwargs)
    \/ \E f \in FieldSet : \E v \in ValuesOf(f) : SetField(f, v, None)
    \/ \E code \in CodeSet : activate(code)
    \/ \E language_code \in FormLanguages : FormInit(language_code)
    \/ \E cleaned_data \in DataSet : FormSave(cleaned_data)

SpecForm == Init /\ [][NextForm]_vars

\* ------------------------------------------------------------- claims

\* What reading the slot attribute of (field, language) on the instance gives.
Slot(field, language) == getattr(obj, get_i18n_field_name(field, language))

\* C1: for every configured language L, every translatable field F and every
\* value v, set_i18n_field_value(F, v) made while the active language is L,
\* immediately followed by get_i18n_field_value(F) under the same active
\* language, returns v.
C1_WriteThenRead ==
    obj.exists =>
        \A f \in FieldSet : \A v \in ValuesOf(f) :
            getter(setter(obj, f, v), f) = Return(v)

\* C1 witness: a title has just been written while a region variant is the
\* active language, and it reads back; the slot of the ambient language holds
\* another value.
C1_Witness ==
    /\ last = Called("set_i18n_field_value")
    /\ obj._force_language = fr_ca
    /\ ambient = de
    /\ getter(obj, title) = Return(2)
    /\ Slot(title, de) = Return(1)

\* The instance after each write of a field under L1: a plain write made while
\* the active language is L1, or translate / update_translation /
\* save_translation for L1.
WritesUnder(L1) ==
    {setter(obj, f, v) :
        f \in {g \in FieldSet : get_active_language(obj) = L1},
        v \in 0..MaxValue}
    \cup {translate(obj, L1, data).self : data \in DataSet}
    \cup {update_translation(obj, L1, data).self : data \in DataSet}
    \cup {save_translation(obj, L1, data).self : data \in DataSet}

\* Every field, the flag included, reads under L2 on `after` what it reads
\* under L2 now.
ReadsUnchanged(after, L2) ==
    \A g \in FieldSet :
        get_i18n_field_value(after, g, L2) = get_i18n_field_value(obj, g, L2)

\* C2 as stated: for any two different configured languages L1 and L2, a
\* write under L1 leaves every value read under L2 unchanged.
C2_AsStated ==
    obj.exists =>
        \A L1 \in CodeSet, L2 \in CodeSet :
            L1 # L2 => \A after \in WritesUnder(L1) : ReadsUnchanged(after, L2)

\* C2 amended: for any two configured languages whose normalized codes
\* differ, a write under L1 leaves every value read under L2 unchanged.
C2_Isolation ==
    obj.exists =>
        \A L1 \in CodeSet, L2 \in CodeSet :
            get_normalized_language(L1) # get_normalized_language(L2)
                => \A after \in WritesUnder(L1) : ReadsUnchanged(after, L2)

\* C2 witness: a title was written under fr while en and de hold other
\* values and de is flagged active.
C2_Witness ==
    /\ last = Called("set_i18n_field_value")
    /\ ambient = fr
    /\ obj._force_language = None
    /\ Slot(title, fr) = Return(2)
    /\ Slot(title, en) = Return(1)
    /\ Slot(title, de) = Return(0)
    /\ Slot(translation_is_active, de) = Return(1)

en_us == <<"e", "n", "-", "u", "s">>

\* C3: a code followed by '-' and any region names the same slot as the code
\* alone, for every field; "en-us" and "en" both name title_en; and
\* normalizing a normalized code changes nothing.
C3_RegionInsensitive ==
    /\ probe.op # "none" => probe.out = probe.again
    /\ get_i18n_field_name(title, en_us) = <<"title", "_", "e", "n">>
    /\ get_i18n_field_name(title, en) = get_i18n_field_name(title, en_us)

\* C3 witness: a field name was resolved for a code with a region that itself
\* holds a '-'.
C3_Witness ==
    /\ probe.op = "get_i18n_field_name"
    /\ probe.field = title
    /\ probe.code = <<"e", "n", "-", "u", "-">>
    /\ probe.out = <<"title", "_", "e", "n">>

\* The language the claim names for an access without explicit language.
ClaimedLanguage ==
    IF obj._force_language # None THEN obj._force_language
    ELSE get_normalized_language(ambient)

\* C4: an access that passes no language resolves to the slot of the forced
\* language when one is set, whatever the ambient language is, and to the
\* slot of the ambient language when none is set: every read returns that
\* slot's value and every write sets that slot and no other.
C4_ForcedLanguageWins ==
    obj.exists =>
        \A f \in FieldSet :
            /\ getter(obj, f) = Slot(f, ClaimedLanguage)
            /\ \A v \in ValuesOf(f) :
                   setter(obj, f, v) =
                       setattr(obj, get_i18n_field_name(f, ClaimedLanguage), v)

\* C4 witness: with de forced and fr ambient, a title was written and went to
\* the de slot.
C4_Witness ==
    /\ last = Called("set_i18n_field_value")
    /\ obj._force_language = de
    /\ ambient = fr
    /\ Slot(title, de) = Return(2)
    /\ Slot(title, fr) = Return(0)
    /\ getter(obj, title) = Return(2)

\* C5 as stated: for every configured language L, after
\* save_translation(L, values) translation_exists(L) is true whatever values
\* holds; after a following deactivate_translation(L) it is false, while every
\* field written by the save_translation still reads back under L with the
\* written value.
C5_AsStated ==
    obj.exists =>
        \A L \in CodeSet, values \in DataSet :
            LET saved == save_translation(obj, L, values).self
                deactivated == deactivate_translation(saved, L).self
            IN  /\ Truthy(translation_exists(saved, L).value)
                /\ ~Truthy(translation_exists(deactivated, L).value)
                /\ \A f \in DOMAIN values \ {active_field_name} :
                       get_i18n_field_value(deactivated, f, L)
                           = Return(values[f])

\* The positions in the configured list of the languages other than the
\* active one whose value of the field is non-empty.
OthersWithValue(field) ==
    {i \in 1..Len(Codes) :
        /\ Codes[i] # get_active_language(obj)
        /\ Truthy(Slot(field, Codes[i]).value)}

\* The value the claim names for a fallback read of the field.
ClaimedFallback(field) ==
    LET active == Slot(field, get_active_language(obj))
        others == OthersWithValue(field)
        first == CHOOSE i \in others : \A j \in others : i <= j
    IN  IF Truthy(active.value) THEN Return(active.value)
        ELSE IF others # {} THEN Return(Slot(field, Codes[first]).value)
        ELSE Return(0)

\* C6: get_i18n_field_value_with_fallbacks(F) never raises and returns the
\* active language's value of F when it is non-empty, otherwise the value of
\* the first language in configured order, the active one skipped, whose
\* value of F is non-empty, otherwise an empty value.
C6_Fallback ==
    obj.exists =>
        \A f \in FieldSet :
            LET read == get_i18n_field_value_with_fallbacks(obj, f, None)
            IN  /\ read.raised = "none"
                /\ read = ClaimedFallback(f)

\* C6 witness: the active language fr has no title, en and de both have one,
\* and the fallback read answers with the title of en.
C6_Witness ==
    /\ obj.exists
    /\ ambient = fr
    /\ obj._force_language = None
    /\ Slot(title, fr) = Return(0)
    /\ Slot(title, en) = Return(1)
    /\ Slot(title, de) = Return(2)
    /\ get_i18n_field_value_with_fallbacks(obj, title, None) = Return(1)

\* The elements of a sequence.
Range(s) == {s[i] : i \in 1..Len(s)}

\* C7: get_bound_languages() is exactly the configured languages whose
\* active flag is true, in configured order; get_translations(False) holds
\* exactly one view per such language and no None;
\* get_translations(True) holds one view per configured language, in
\* configured order, each view's is_active equal to translation_exists of its
\* language.
C7_Enumeration ==
    obj.exists =>
        LET bound == get_bound_languages(obj)
            active == get_translations(obj, FALSE)
            every == get_translations(obj, TRUE)
        IN  /\ \A l \in CodeSet :
                   l \in Range(bound) <=>
                       Truthy(Slot(active_field_name, l).value)
            /\ bound = SelectSeq(Codes, LAMBDA l : l \in Range(bound))
            /\ Len(active) = Len(bound)
            /\ \A i \in 1..Len(active) :
                   /\ active[i] # NoTranslation
                   /\ active[i].language_code = bound[i]
            /\ Len(every) = Len(Codes)
            /\ \A i \in 1..Len(every) :
                   /\ every[i] # NoTranslation
                   /\ every[i].language_code = Codes[i]
                   /\ is_active(every[i], obj) = translation_exists(obj, Codes[i])

\* C7 witness: the record was saved under en and under de, and only those two
\* languages are bound.
C7_Witness ==
    /\ last = Called("save")
    /\ get_bound_languages(obj) = <<en, de>>
    /\ Len(get_translations(obj, FALSE)) = 2
    /\ Len(get_translations(obj, TRUE)) = 4
    /\ ~Truthy(is_active(get_translations(obj, TRUE)[2], obj).value)

\* Keywords that supply a title and nothing else.
TitleOnly == {kwargs \in DataSet : DOMAIN kwargs = {title} /\ Truthy(kwargs[title])}

\* C8 as stated: a record constructed with a value for a translatable field
\* while the ambient language is L holds that value in the slot of L and no
\* supplied value in the slots of the other languages; after construction no
\* language is active, and none becomes active under plain writes of non-flag
\* fields.
C8_AsStated ==
    \A kwargs \in TitleOnly :
        LET r == MultilingualModel__init__(kwargs)
        IN  /\ r.raised = "none"
            /\ get_i18n_field_value(r.self, title, ambient)
                   = Return(kwargs[title])
            /\ \A l \in CodeSet :
                   get_normalized_language(l) # get_normalized_language(ambient)
                       => get_i18n_field_value(r.self, title, l)
                              = Return(DefaultOf(title))
            /\ get_bound_languages(r.self) = << >>
            /\ \A v \in ValuesOf(title) :
                   get_bound_languages(setter(r.self, title, v)) = << >>

\* The call completed.
Completes(r) == r.raised = "none"

C10_ViewLookup ==
    obj.exists =>
        \A L \in CodeSet :
            LET view == get_translation(obj, L, TRUE)
            IN  /\ \A name \in Range(view.fields) :
                       Translation__getattr__(view, obj, name)
                           = Found(Slot(name, L).value, obj)
                /\ Translation__getattr__(view, obj, price)
                       = FieldDoesNotExist(object_name, price, obj)

\* C10 witness: with de forced and en ambient, the view bound to fr-ca answers
\* title with the value of the fr slot, which is not what the record itself
\* reads, and refuses price.
C10_Witness ==
    /\ obj.exists
    /\ obj._force_language = de
    /\ ambient = en
    /\ Slot(title, fr) = Return(2)
    /\ getter(obj, title) = Return(1)
    /\ Translation__getattr__(get_translation(obj, fr_ca, TRUE), obj, title)
           = Found(2, obj)
    /\ Translation__getattr__(get_translation(obj, fr_ca, TRUE), obj, price).raised
           = "FieldDoesNotExist"

\* What the primary language reads for a field on the instance.
PrimarySlot(field) ==
    getattr(obj, get_i18n_field_name(field, conf_C3_PRIMARY_LANGUAGE(settings)))

\* C11 as stated: under every configuration of the language list and the
\* primary language, the language __init__ and save() force while the
\* framework writes and reads the un-suffixed fields is the primary language,
\* the one without generated copies: an instance built from a stored row
\* reads under the primary language what the un-suffixed columns hold, and
\* save() stores in the un-suffixed columns what the primary language reads.
C11_AsStated ==
    (last \in {Called("__init__"), Called("save")}) =>
        /\ forced_primary_language(settings)
               = get_normalized_language(conf_C3_PRIMARY_LANGUAGE(settings))
        /\ \A f \in FieldSet : PrimarySlot(f) = Return(store.attrs[f])

\* Whether the stored row holds a true active flag for the language.
StoredFlag(row, language) ==
    LET n == rewrite_lookup_key(settings, active_field_name, language)
    IN  row.exists /\ n \in DOMAIN row.attrs /\ Truthy(row.attrs[n])

\* C12 as stated: whatever request reaches the deactivate-translation view,
\* the stored active flag of the requested language goes from true to false
\* only when the object exists, the translation of that language is active,
\* the requester has delete permission and the method is POST; a request for
\* a missing object or for a language with no active translation ends as not
\* found, one without permission as permission denied, a non-POST request as
\* a confirmation page, and in each of these cases the stored row is
\* unchanged and nothing is logged.
C12_AsStated ==
    \A request \in Requests :
        LET r == deactivate_translation_view(settings, store, admin.log, request)
            found == get_object(settings, store, request.object_id).exists
            active == found /\ StoredFlag(store, request.language_code)
            permitted == request.has_delete_permission
            untouched == r.store = store /\ r.log = admin.log
        IN  /\ (StoredFlag(store, request.language_code)
                    /\ ~StoredFlag(r.store, request.language_code))
                   => (active /\ permitted /\ request.method = "POST")
            /\ ~active => (r.response = "Http404" /\ untouched)
            /\ (active /\ ~permitted)
                   => (r.response = "PermissionDenied" /\ untouched)
            /\ (active /\ permitted /\ request.method # "POST")
                   => (r.response = "confirmation" /\ untouched)

\* C13 as stated: for every language_code a form class carries, after a form
\* has been constructed for the instance, and after the form's save() has
\* returned, the instance's _force_language is what it was before the form
\* was constructed, so the language the instance's reads and writes follow
\* is the one they followed before.
C13_AsStated ==
    obj.exists =>
        \A language_code \in FormLanguages :
            LET built == MultilingualModelForm__init__(obj, language_code)
            IN  /\ built._force_language = obj._force_language
                /\ get_active_language(built) = get_active_language(obj)
                /\ \A cleaned_data \in DataSet :
                       LET saved == MultilingualModelForm_save(
                                        built, language_code, cleaned_data)
                       IN  /\ saved._force_language = obj._force_language
                           /\ get_active_language(saved)
                                  = get_active_language(obj)

=============================================================================
